---- MODULE Spec2Model ----
(***************************************************************************)
(* Control loop of wifi_analysis_and_control.py: the receive / process /   *)
(* send cycle against the ns3-ai message interface, the per-timestamp      *)
(* downlink window, the adaptive transmit power and the CSV export on the  *)
(* three exit paths (finish, exception, interrupt).                        *)
(*                                                                         *)
(* Floats are modelled as exact rationals [n, d] in lowest terms (d > 0);  *)
(* the absent value None is the pair with d = 0.                           *)
(***************************************************************************)
EXTENDS Integers, Sequences, FiniteSets, TLC

\* ---------------------------------------------------------------- bounds
\* Number of ticks the simulator publishes before it only signals finish.
MaxTicks == 4

\* Simulation timestamps the simulator may publish, and the downlink
\* samples it may report at each.  Samples outside the nominal 0..100 Mbps
\* (negative, very large) come in the first timestamp group, whose mean the
\* later ticks use.
Timestamps == {1, 2, 3}
PublishedDl(t) ==
    CASE t = 1 -> {-50, 10, 20, 30, 400}
      [] t = 2 -> {30}
      [] OTHER -> {20}

\* ------------------------------------------------------------- rationals
Abs(x) == IF x < 0 THEN -x ELSE x

\* In GCD, Norm, pymin and pymax the operands are bound by a set
\* constructor, so that each operand is evaluated once however often the
\* body uses it.
RECURSIVE GCD(_, _)
GCD(a, b) ==
    IF b = 0
        THEN a
        ELSE CHOOSE g \in {GCD(p[1], p[2]) : p \in {<<b, a % b>>}} : TRUE

Norm(n, d) ==
    CHOOSE r \in {LET g == GCD(Abs(p[1]), p[2])
                  IN [n |-> p[1] \div g, d |-> p[2] \div g] :
                  p \in {<<n, d>>}} : TRUE

R(i) == [n |-> i, d |-> 1]
None == [n |-> 0, d |-> 0]

RatLT(a, b) == a.n * b.d < b.n * a.d
RatSub(a, b) == Norm(a.n * b.d - b.n * a.d, a.d * b.d)
RatMul(a, b) == Norm(a.n * b.n, a.d * b.d)
RatDiv(a, b) == Norm(a.n * b.d, a.d * b.n)

\* Python's min / max of two numbers: the first argument wins a tie.
pymin(a, b) ==
    CHOOSE r \in {IF RatLT(p[2], p[1]) THEN p[2] ELSE p[1] :
                  p \in {<<a, b>>}} : TRUE
pymax(a, b) ==
    CHOOSE r \in {IF RatLT(p[1], p[2]) THEN p[2] ELSE p[1] :
                  p \in {<<a, b>>}} : TRUE

RECURSIVE sum(_)
sum(s) == IF s = <<>> THEN 0 ELSE Head(s) + sum(Tail(s))

\* ------------------------------------------------------------ tick data
\* The Cpp2Py structure published by the simulator for one station report.
TickOf(t, dl) ==
    [pos_x |-> 3, pos_y |-> 4, distance |-> 5, dl_tp |-> dl, ul_tp |-> 7,
     get_ApTx |-> 20, sta_id |-> 0, now_sec |-> t]

Ticks == UNION {{TickOf(t, dl) : dl \in PublishedDl(t)} : t \in Timestamps}

NoTick == TickOf(0, 0)

\* ------------------------------------------------------------ CSV export
Columns ==
    <<"pos_x", "pos_y", "distance", "dl_tp", "ul_tp", "get_ApTx", "sta_id",
      "now_sec", "set_ApTx">>

\* pd.DataFrame(list of dicts): columns in key order, one row per dict.
DataFrame(store) ==
    [columns |-> Columns,
     rows |-> [i \in 1..Len(store) |->
                  <<store[i].pos_x, store[i].pos_y, store[i].distance,
                    store[i].dl_tp, store[i].ul_tp, store[i].get_ApTx,
                    store[i].sta_id, store[i].now_sec, store[i].set_ApTx>>]]

\* df.to_csv(csv_path, index=False): the file is replaced by header + rows.
to_csv(df) == [header |-> df.columns, rows |-> df.rows]

\* toy_data.csv as found before the run: what an earlier run left there
\* (the script never reads or removes it).
PriorFile ==
    [header |-> Columns, rows |-> << <<9, 9, 9, 9, 9, 9, 9, 9, R(9)>> >>]

\* ------------------------------------------------------ window / control
\* Line 149: mean of the buffered downlink samples.
mean_dl(values) == Norm(sum(values), Len(values))

\* Variant: line 146 written as now_sec > prev_now_sec.
WindowChanged_OnlyForward(now_sec, prev) == now_sec > prev

\* Line 146: a tick with another timestamp than the window's.
WindowChanged(now_sec, prev) == now_sec # prev

\* Lines 146-150: the known mean after the window detection of one tick.
NextPrevMean(now_sec, prev, values, known) ==
    IF WindowChanged(now_sec, prev) /\ values # <<>>
        THEN mean_dl(values)
        ELSE known

\* Variant: the sample of the tick that opens a window is dropped with the
\* reset instead of being appended after it.
NextDlValues_DropsFirst(now_sec, prev, values, dl) ==
    IF WindowChanged(now_sec, prev) THEN <<>> ELSE Append(values, dl)

\* Variant: the reset of line 154 left out.
NextDlValues_NoReset(now_sec, prev, values, dl) == Append(values, dl)

\* Lines 146-157: the sample buffer after one tick.
NextDlValues(now_sec, prev, values, dl) ==
    Append(IF WindowChanged(now_sec, prev) THEN <<>> ELSE values, dl)

\* Variant: line 164 without the max / min clamp.
AdaptiveApTx_NoClamp(known) ==
    IF known # None
        THEN RatSub(R(30), RatDiv(RatMul(R(30), known), R(100)))
        ELSE R(20)

\* Variant: line 143 starts from the upper limit instead of 20.0.
AdaptiveApTx_Default30(known) ==
    IF known # None
        THEN pymax(R(1), pymin(R(30),
                 RatSub(R(30), RatDiv(RatMul(R(30), known), R(100)))))
        ELSE R(30)

\* Lines 143, 160-164: the transmit power for the known mean.
AdaptiveApTx(known) ==
    IF known # None
        THEN pymax(R(1), pymin(R(30),
                 RatSub(R(30), RatDiv(RatMul(R(30), known), R(100)))))
        ELSE R(20)

\* Variant: the power is computed before the window detection, from the
\* mean known when the tick arrived.
TickDirective_LateMean(now_sec, prev, values, known) == AdaptiveApTx(known)

\* Lines 143-165: the transmit power of one tick, computed after the
\* window detection of that tick.
TickDirective(now_sec, prev, values, known) ==
    AdaptiveApTx(NextPrevMean(now_sec, prev, values, known))

\* ----------------------------------------------------------------- state
VARIABLES
    pc,                 \* position of the script
    lockRead,           \* channel: read phase open (PyRecvBegin .. PyRecvEnd)
    lockWrite,          \* channel: write phase open (PySendBegin .. PySendEnd)
    isFinished,         \* channel: finish flag set by the simulator
    cpp2py,             \* channel: tick structure published by the simulator
    py2cpp,             \* channel: set_ApTx slot, None until written
    wifi,               \* locals pos_x .. now_sec copied out at lines 113-120
    set_ApTx,           \* local set_ApTx
    data_store,         \* line 83
    prev_now_sec,       \* line 84
    current_dl_values,  \* line 85
    prev_mean_dl,       \* line 86
    csv_file,           \* content of toy_data.csv
    pending,            \* exception in flight
    exit_code,          \* process exit status, -1 while running
    exp,                \* the Experiment object
    calls,              \* history: handshake calls issued
    ticksRead,          \* history: tick structures read at line 110
    means,              \* history: means computed at line 149
    flushes,            \* history: number of to_csv calls
    failedAt            \* history: the call that raised, "none" if none did

vars ==
    <<pc, lockRead, lockWrite, isFinished, cpp2py, py2cpp, wifi, set_ApTx,
      data_store, prev_now_sec, current_dl_values, prev_mean_dl, csv_file,
      pending, exit_code, exp, calls, ticksRead, means, flushes, failedAt>>

chanVars == <<lockRead, lockWrite, isFinished, cpp2py, py2cpp>>
winVars == <<prev_now_sec, current_dl_values, prev_mean_dl, means>>
exitVars == <<csv_file, pending, exit_code, exp, flushes, failedAt>>

\* Positions inside the try body, and those that call into the channel.
LoopPcs ==
    {"PyRecvBegin", "PyGetFinished", "GetCpp2PyStruct", "PyRecvEnd",
     "Process", "PySendBegin", "GetPy2CppStruct", "PySendEnd"}
ChannelPcs == LoopPcs \ {"Process"}

\* The handshake phase a channel call belongs to, "" for the accessors.
PhaseOf(p) ==
    CASE p = "PyRecvBegin" -> "beginRead"
      [] p = "PyRecvEnd" -> "endRead"
      [] p = "PySendBegin" -> "beginWrite"
      [] p = "PySendEnd" -> "endWrite"
      [] OTHER -> ""

Init ==
    /\ pc = "PyRecvBegin"
    /\ lockRead = FALSE
    /\ lockWrite = FALSE
    /\ isFinished = FALSE
    /\ cpp2py = NoTick
    /\ py2cpp = None
    /\ wifi = NoTick
    /\ set_ApTx = None
    /\ data_store = <<>>
    /\ prev_now_sec = -1
    /\ current_dl_values = <<>>
    /\ prev_mean_dl = None
    /\ csv_file = PriorFile
    /\ pending = "none"
    /\ exit_code = -1
    /\ exp = "running"
    /\ calls = <<>>
    /\ ticksRead = <<>>
    /\ means = <<>>
    /\ flushes = 0
    /\ failedAt = "none"

\* --------------------------------------------------------------- actions
\* Line 94, the simulator has published a tick.
PyRecvBegin_Tick ==
    /\ pc = "PyRecvBegin"
    /\ Len(ticksRead) < MaxTicks
    /\ \E t \in Ticks : cpp2py' = t
    /\ lockRead' = TRUE
    /\ calls' = Append(calls, "beginRead")
    /\ pc' = "PyGetFinished"
    /\ UNCHANGED <<lockWrite, isFinished, py2cpp, wifi, set_ApTx, data_store,
                   winVars, exitVars, ticksRead>>

\* Line 94, the simulator has signalled completion.
PyRecvBegin_Finish ==
    /\ pc = "PyRecvBegin"
    /\ isFinished' = TRUE
    /\ lockRead' = TRUE
    /\ calls' = Append(calls, "beginRead")
    /\ pc' = "PyGetFinished"
    /\ UNCHANGED <<lockWrite, cpp2py, py2cpp, wifi, set_ApTx, data_store,
                   winVars, exitVars, ticksRead>>

\* Variant: the finish flag is printed but not acted on.
AfterFinishCheck_Ignored(finished) == "GetCpp2PyStruct"

\* Lines 97-99: break on the finish flag; the try body ends, else runs.
AfterFinishCheck(finished) == IF finished THEN "else" ELSE "GetCpp2PyStruct"

\* Variant: the finish branch closes the window in progress before break.
PyGetFinished_ClosesWindow ==
    /\ pc = "PyGetFinished"
    /\ pc' = AfterFinishCheck(isFinished)
    /\ IF isFinished /\ current_dl_values # <<>>
          THEN /\ prev_mean_dl' = mean_dl(current_dl_values)
               /\ means' = Append(means, mean_dl(current_dl_values))
               /\ current_dl_values' = <<>>
               /\ UNCHANGED prev_now_sec
          ELSE UNCHANGED winVars
    /\ UNCHANGED <<chanVars, wifi, set_ApTx, data_store, exitVars, calls,
                   ticksRead>>

PyGetFinished ==
    /\ pc = "PyGetFinished"
    /\ pc' = AfterFinishCheck(isFinished)
    /\ UNCHANGED <<chanVars, wifi, set_ApTx, data_store, winVars, exitVars,
                   calls, ticksRead>>

\* Lines 110-120: copy the tick fields into locals.
GetCpp2PyStruct ==
    /\ pc = "GetCpp2PyStruct"
    /\ wifi' = cpp2py
    /\ ticksRead' = Append(ticksRead, cpp2py)
    /\ pc' = "PyRecvEnd"
    /\ UNCHANGED <<chanVars, set_ApTx, data_store, winVars, exitVars, calls>>

\* Variant: line 122 left out, the send phase follows the copy directly.
PyRecvEnd_Forgotten ==
    /\ pc = "PyRecvEnd"
    /\ pc' = "Process"
    /\ UNCHANGED <<chanVars, wifi, set_ApTx, data_store, winVars, exitVars,
                   calls, ticksRead>>

\* Line 122.  With the read phase closed the tick structure is the
\* simulator's again: its content is no longer the tick's.
PyRecvEnd ==
    /\ pc = "PyRecvEnd"
    /\ lockRead' = FALSE
    /\ cpp2py' = NoTick
    /\ calls' = Append(calls, "endRead")
    /\ pc' = "Process"
    /\ UNCHANGED <<lockWrite, isFinished, py2cpp, wifi, set_ApTx,
                   data_store, winVars, exitVars, ticksRead>>

\* Variant: the set_ApTx column filled with the power read from the tick.
data_point_OldTx(w, tx) ==
    [pos_x |-> w.pos_x, pos_y |-> w.pos_y, distance |-> w.distance,
     dl_tp |-> w.dl_tp, ul_tp |-> w.ul_tp, get_ApTx |-> w.get_ApTx,
     sta_id |-> w.sta_id, now_sec |-> w.now_sec, set_ApTx |-> R(w.get_ApTx)]

\* Variant: the row is built from the channel's tick structure at line 181
\* instead of the locals copied at lines 113-120.
data_point_FromChannel(w, tx) ==
    [pos_x |-> cpp2py.pos_x, pos_y |-> cpp2py.pos_y,
     distance |-> cpp2py.distance, dl_tp |-> cpp2py.dl_tp,
     ul_tp |-> cpp2py.ul_tp, get_ApTx |-> cpp2py.get_ApTx,
     sta_id |-> cpp2py.sta_id, now_sec |-> cpp2py.now_sec, set_ApTx |-> tx]

\* Lines 181-191: the row stored for one tick.
data_point(w, tx) ==
    [pos_x |-> w.pos_x, pos_y |-> w.pos_y, distance |-> w.distance,
     dl_tp |-> w.dl_tp, ul_tp |-> w.ul_tp, get_ApTx |-> w.get_ApTx,
     sta_id |-> w.sta_id, now_sec |-> w.now_sec, set_ApTx |-> tx]

\* Lines 143-192: window detection, adaptive control, data_store.append.
Process ==
    /\ pc = "Process"
    /\ prev_mean_dl' = NextPrevMean(wifi.now_sec, prev_now_sec,
                                    current_dl_values, prev_mean_dl)
    /\ means' = IF WindowChanged(wifi.now_sec, prev_now_sec)
                   /\ current_dl_values # <<>>
                  THEN Append(means, prev_mean_dl')
                  ELSE means
    /\ current_dl_values' = NextDlValues(wifi.now_sec, prev_now_sec,
                                         current_dl_values, wifi.dl_tp)
    /\ prev_now_sec' = wifi.now_sec
    /\ set_ApTx' = TickDirective(wifi.now_sec, prev_now_sec,
                                 current_dl_values, prev_mean_dl)
    /\ data_store' = Append(data_store, data_point(wifi, set_ApTx'))
    /\ pc' = "PySendBegin"
    /\ UNCHANGED <<chanVars, wifi, exitVars, calls, ticksRead>>

\* Line 196.
PySendBegin ==
    /\ pc = "PySendBegin"
    /\ lockWrite' = TRUE
    /\ calls' = Append(calls, "beginWrite")
    /\ pc' = "GetPy2CppStruct"
    /\ UNCHANGED <<lockRead, isFinished, cpp2py, py2cpp, wifi, set_ApTx,
                   data_store, winVars, exitVars, ticksRead>>

\* Variant: line 199 left out, the write phase is opened and closed empty.
GetPy2CppStruct_NoWrite ==
    /\ pc = "GetPy2CppStruct"
    /\ pc' = "PySendEnd"
    /\ UNCHANGED <<chanVars, wifi, set_ApTx, data_store, winVars, exitVars,
                   calls, ticksRead>>

\* Line 199.
GetPy2CppStruct ==
    /\ pc = "GetPy2CppStruct"
    /\ py2cpp' = set_ApTx
    /\ pc' = "PySendEnd"
    /\ UNCHANGED <<lockRead, lockWrite, isFinished, cpp2py, wifi, set_ApTx,
                   data_store, winVars, exitVars, calls, ticksRead>>

\* Line 201, then back to the top of the while loop.
PySendEnd ==
    /\ pc = "PySendEnd"
    /\ lockWrite' = FALSE
    /\ calls' = Append(calls, "endWrite")
    /\ pc' = "PyRecvBegin"
    /\ UNCHANGED <<lockRead, isFinished, cpp2py, py2cpp, wifi, set_ApTx,
                   data_store, winVars, exitVars, ticksRead>>

\* A channel call raises: control goes to the except clause of line 205.
\* The failing call is issued but changes nothing in the channel.
ChannelError ==
    /\ pc \in ChannelPcs
    /\ calls' = IF PhaseOf(pc) # "" THEN Append(calls, PhaseOf(pc)) ELSE calls
    /\ pending' = "Exception"
    /\ failedAt' = pc
    /\ pc' = "except"
    /\ UNCHANGED <<chanVars, wifi, set_ApTx, data_store, winVars, csv_file,
                   exit_code, exp, ticksRead, flushes>>

\* An interrupt arrives inside the try body: KeyboardInterrupt is no
\* Exception, so line 205 does not catch it and only finally runs.
KeyboardInterrupt ==
    /\ pc \in LoopPcs
    /\ pending' = "KeyboardInterrupt"
    /\ pc' = "finally"
    /\ UNCHANGED <<chanVars, wifi, set_ApTx, data_store, winVars, csv_file,
                   exit_code, exp, calls, ticksRead, flushes, failedAt>>

\* Variant: the export keeps only the records whose directive reached the
\* simulator (as many rows as endWrite calls).
SaveCsv_DeliveredOnly(store, file) ==
    IF store # <<>>
        THEN to_csv(DataFrame(SubSeq(store, 1,
                 Cardinality({i \in DOMAIN calls : calls[i] = "endWrite"}))))
        ELSE file

\* Variant: the export runs whether or not data_store holds a record.
SaveCsv_Unconditional(store, file) == to_csv(DataFrame(store))

\* Variant: to_csv opened in append mode.
SaveCsv_AppendMode(store, file) ==
    IF store # <<>>
        THEN [header |-> Columns, rows |-> file.rows \o DataFrame(store).rows]
        ELSE file

\* Lines 218-221 and 248-250: export when data_store is not empty.
SaveCsv(store, file) == IF store # <<>> THEN to_csv(DataFrame(store)) ELSE file
SaveCount(store, n) == IF store # <<>> THEN n + 1 ELSE n

\* Variant: the handler saves but does not call exit(1).
ExceptHandler_NoExit ==
    /\ pc = "except"
    /\ csv_file' = SaveCsv(data_store, csv_file)
    /\ flushes' = SaveCount(data_store, flushes)
    /\ pending' = "none"
    /\ pc' = "finally"
    /\ UNCHANGED <<chanVars, wifi, set_ApTx, data_store, winVars, exit_code,
                   exp, calls, ticksRead, failedAt>>

\* Lines 205-224: save, then exit(1) raises SystemExit through finally.
ExceptHandler ==
    /\ pc = "except"
    /\ csv_file' = SaveCsv(data_store, csv_file)
    /\ flushes' = SaveCount(data_store, flushes)
    /\ pending' = "SystemExit"
    /\ pc' = "finally"
    /\ UNCHANGED <<chanVars, wifi, set_ApTx, data_store, winVars, exit_code,
                   exp, calls, ticksRead, failedAt>>

\* Lines 227-234.
ElseClause ==
    /\ pc = "else"
    /\ pc' = "finally"
    /\ UNCHANGED <<chanVars, wifi, set_ApTx, data_store, winVars, exitVars,
                   calls, ticksRead>>

\* Exit status once finally is done: 0 at the end of the script, the
\* argument of exit(1) for SystemExit, 130 for an uncaught interrupt.
ExitStatus(exc) ==
    CASE exc = "none" -> 0
      [] exc = "SystemExit" -> 1
      [] OTHER -> 130

\* Variant: the export of lines 248-250 sits in the else block only.
Finally_NoExport ==
    /\ pc = "finally"
    /\ csv_file' = IF pending = "none"
                      THEN SaveCsv(data_store, csv_file)
                      ELSE csv_file
    /\ flushes' = IF pending = "none"
                     THEN SaveCount(data_store, flushes)
                     ELSE flushes
    /\ exp' = "deleted"
    /\ exit_code' = ExitStatus(pending)
    /\ pc' = "exited"
    /\ UNCHANGED <<chanVars, wifi, set_ApTx, data_store, winVars, pending,
                   calls, ticksRead, failedAt>>

\* Lines 237-264: export, delete the experiment, leave the script.
Finally ==
    /\ pc = "finally"
    /\ csv_file' = SaveCsv(data_store, csv_file)
    /\ flushes' = SaveCount(data_store, flushes)
    /\ exp' = "deleted"
    /\ exit_code' = ExitStatus(pending)
    /\ pc' = "exited"
    /\ UNCHANGED <<chanVars, wifi, set_ApTx, data_store, winVars, pending,
                   calls, ticksRead, failedAt>>

Next ==
    \/ PyRecvBegin_Tick
    \/ PyRecvBegin_Finish
    \/ PyGetFinished
    \/ GetCpp2PyStruct
    \/ PyRecvEnd
    \/ Process
    \/ PySendBegin
    \/ GetPy2CppStruct
    \/ PySendEnd
    \/ ChannelError
    \/ KeyboardInterrupt
    \/ ExceptHandler
    \/ ElseClause
    \/ Finally

Spec == Init /\ [][Next]_vars

\* The script with a channel whose calls all return and with no interrupt.
\* The script is one sequential thread: whatever step is next is taken,
\* and PyRecvBegin returns once the simulator has published a tick or the
\* finish flag.
NextNoFault ==
    \/ PyRecvBegin_Tick
    \/ PyRecvBegin_Finish
    \/ PyGetFinished
    \/ GetCpp2PyStruct
    \/ PyRecvEnd
    \/ Process
    \/ PySendBegin
    \/ GetPy2CppStruct
    \/ PySendEnd
    \/ ElseClause
    \/ Finally

FairSpec == Init /\ [][NextNoFault]_vars /\ WF_vars(NextNoFault)

\* ---------------------------------------------------------------- claims
Alternation == <<"beginRead", "endRead", "beginWrite", "endWrite">>

Last(seq) == seq[Len(seq)]

\* The loop left through the finish check: else, finally, end of script.
Terminated == pc \in {"else", "finally", "exited"} /\ pending = "none"

\* Number of reads started so far.
NumReads == Cardinality({i \in DOMAIN calls : calls[i] = "beginRead"})

\* A call of the read phase raised.
ReadFailed ==
    failedAt \in {"PyRecvBegin", "PyGetFinished", "GetCpp2PyStruct",
                  "PyRecvEnd"}

\* The CSV row of a tick and its directive.
RowOf(t, tx) ==
    <<t.pos_x, t.pos_y, t.distance, t.dl_tp, t.ul_tp, t.get_ApTx, t.sta_id,
      t.now_sec, tx>>

\* toy_data.csv holds exactly the records of the first k ticks, in order.
StorageHolds(k) ==
    /\ csv_file.header = Columns
    /\ Len(csv_file.rows) = k
    /\ Len(data_store) >= k
    /\ \A i \in 1..k :
           csv_file.rows[i] = RowOf(ticksRead[i], data_store[i].set_ApTx)

\* C1: the handshake calls issued so far are a prefix of beginRead, endRead,
\* beginWrite, endWrite, beginRead, ...; the two locks are never held
\* together; and whenever a read phase is open the directive of the last
\* recorded tick has been written to the channel and its write phase closed.
C1_StrictAlternation ==
    /\ \A i \in DOMAIN calls : calls[i] = Alternation[((i - 1) % 4) + 1]
    /\ ~(lockRead /\ lockWrite)
    /\ (lockRead /\ data_store # <<>>) =>
           /\ py2cpp = Last(data_store).set_ApTx
           /\ \E i \in DOMAIN calls :
                  /\ calls[i] = "endWrite"
                  /\ i >= 4 * Len(data_store)

\* C1 witness: the second tick is being read after the first was written.
C1_Witness ==
    /\ pc = "GetCpp2PyStruct"
    /\ lockRead
    /\ Len(calls) = 5
    /\ Len(data_store) = 1
    /\ py2cpp = R(20)

\* C2: once the loop has left through the finish check, endRead was the
\* last handshake call and the read lock is not held.
C2_EndReadBeforeTerminated ==
    Terminated => (~lockRead /\ calls # <<>> /\ Last(calls) = "endRead")

\* C3: when the script has exited, to_csv ran at most once, and exactly
\* once if a record exists.
C3_FlushExactlyOnce ==
    pc = "exited" => (flushes <= 1 /\ (data_store # <<>> => flushes = 1))

\* C4 as stated: after an error in the k-th read (k >= 1) the file holds
\* exactly the k-1 records of the ticks processed before it.
C4_AnyReadFailure ==
    (pc = "exited" /\ ReadFailed) => StorageHolds(NumReads - 1)

\* C4 amended: after an error in the k-th read with k >= 2 the file holds
\* exactly the k-1 records of the ticks processed before it, each once and
\* in arrival order; with k = 1 nothing is written and the file keeps the
\* content it had before the run.
C4_ReadFailureKeepsRecords ==
    (pc = "exited" /\ ReadFailed) =>
        IF NumReads >= 2
            THEN StorageHolds(NumReads - 1) /\ Len(data_store) = NumReads - 1
            ELSE csv_file = PriorFile

\* C4 witness: the fifth PyRecvBegin raised and four rows are on disk.
C4_Witness ==
    /\ pc = "exited"
    /\ failedAt = "PyRecvBegin"
    /\ NumReads = 5
    /\ Len(csv_file.rows) = 4

\* The file holds what data_store holds, if data_store holds anything.
Saved == data_store # <<>> => (flushes >= 1 /\ csv_file = to_csv(DataFrame(data_store)))

\* C5: the exit status is 0 after the finish signal, with the data saved;
\* it is non-zero after an error of a channel call, and the data is saved
\* by the time exit(1) is raised and the status reported.
C5_ExitCode ==
    /\ (pc = "exited" /\ failedAt = "none" /\ pending = "none") =>
           (exit_code = 0 /\ Saved)
    /\ (pc = "exited" /\ failedAt # "none") => (exit_code > 0 /\ Saved)
    /\ (failedAt # "none" /\ pc # "except") => Saved
    /\ exit_code # -1 => pc = "exited"

\* C5 witness: PySendBegin raised on the second tick; status 1, two rows.
C5_Witness ==
    /\ pc = "exited"
    /\ failedAt = "PySendBegin"
    /\ exit_code = 1
    /\ Len(csv_file.rows) = 2

\* The ticks that went through the processing of lines 143-192.
Processed == SubSeq(ticksRead, 1, Len(data_store))

\* First index of the run of equal timestamps that position i belongs to.
RunStart(seq, i) ==
    CHOOSE a \in 1..i :
        /\ \A j \in a..i : seq[j].now_sec = seq[i].now_sec
        /\ a = 1 \/ seq[a - 1].now_sec # seq[i].now_sec

\* The downlink samples of positions a..b.
DlOf(seq, a, b) == [k \in 1..(b - a + 1) |-> seq[a + k - 1].dl_tp]

\* clamp(30 - 30 * (total / count) / 100, 1, 30) as an exact fraction.
ClampedPower(total, count) ==
    LET raw == Norm(3000 * count - 30 * total, 100 * count)
    IN IF RatLT(raw, R(1)) THEN R(1)
       ELSE IF RatLT(R(30), raw) THEN R(30)
       ELSE raw

InRange(x) == ~RatLT(x, R(1)) /\ ~RatLT(R(30), x)

\* C6: every directive computed, recorded or written lies in [1, 30].
C6_DirectiveInRange ==
    /\ \A i \in DOMAIN data_store : InRange(data_store[i].set_ApTx)
    /\ set_ApTx # None => InRange(set_ApTx)
    /\ py2cpp # None => InRange(py2cpp)

\* C6 witness: a negative and a very large mean were known, and both limits
\* were recorded and written.
C6_Witness ==
    /\ \E j \in DOMAIN means : means[j].n < 0
    /\ \E j \in DOMAIN means : RatLT(R(100), means[j])
    /\ \E i \in DOMAIN data_store : data_store[i].set_ApTx = R(30)
    /\ \E i \in DOMAIN data_store : data_store[i].set_ApTx = R(1)
    /\ py2cpp = R(1)

\* C7: the directive of every tick processed after a window has closed is
\* clamp(30 - 30 * M / 100, 1, 30), M the mean of the samples of the window
\* closed last before or by that tick; the window [10, 20, 30] followed by
\* a tick of another timestamp gives 24.
C7_DirectiveFromLastMean ==
    \A i \in DOMAIN data_store :
        LET a == RunStart(ticksRead, i)
        IN a > 1 =>
              LET b == RunStart(ticksRead, a - 1)
              IN /\ data_store[i].set_ApTx =
                        ClampedPower(sum(DlOf(ticksRead, b, a - 1)), a - b)
                 /\ (DlOf(ticksRead, b, a - 1) = <<10, 20, 30>>) =>
                        data_store[i].set_ApTx = R(24)

\* C7 witness: ticks 10, 20, 30 at timestamp 1, then a tick at timestamp 2
\* recorded with 24.
C7_Witness ==
    /\ Len(data_store) = 4
    /\ DlOf(ticksRead, 1, 3) = <<10, 20, 30>>
    /\ \A i \in 1..3 : ticksRead[i].now_sec = 1
    /\ ticksRead[4].now_sec = 2
    /\ data_store[4].set_ApTx = R(24)
    /\ py2cpp = R(24)

NonDecreasing(seq) ==
    \A i \in 1..(Len(seq) - 1) : seq[i].now_sec <= seq[i + 1].now_sec

\* Positions whose timestamp differs from the previous tick's.
Changes(seq) == {i \in 2..Len(seq) : seq[i].now_sec # seq[i - 1].now_sec}

\* The downlink samples of all ticks of seq carrying timestamp t.
SamplesAt(seq, t) ==
    LET at == SelectSeq(seq, LAMBDA r : r.now_sec = t)
    IN [k \in 1..Len(at) |-> at[k].dl_tp]

\* C8: for ticks with non-decreasing timestamps, one mean is computed per
\* change of timestamp between consecutive ticks, none on other ticks, and
\* it is the mean of the samples of all ticks with the earlier timestamp.
C8_OneMeanPerChange ==
    NonDecreasing(Processed) =>
        /\ Len(means) = Cardinality(Changes(Processed))
        /\ \A i \in Changes(Processed) :
               LET j == Cardinality({c \in Changes(Processed) : c <= i})
                   samples == SamplesAt(Processed, Processed[i - 1].now_sec)
               IN means[j] = Norm(sum(samples), Len(samples))

\* C8 witness: timestamps 1, 1, 2, 3 gave two means, the first over two
\* samples.
C8_Witness ==
    /\ Len(data_store) = 4
    /\ [i \in 1..4 |-> ticksRead[i].now_sec] = <<1, 1, 2, 3>>
    /\ DlOf(ticksRead, 1, 3) = <<10, 30, 30>>
    /\ means = <<R(20), R(30)>>

\* C9: every tick of the first timestamp group is recorded with 20; three
\* ticks at one timestamp followed by finish give 20, 20, 20.
C9_DefaultBeforeFirstWindow ==
    \A i \in DOMAIN data_store :
        (\A j \in 1..i : ticksRead[j].now_sec = ticksRead[1].now_sec) =>
            data_store[i].set_ApTx = R(20)

\* C9 witness: three ticks at timestamp 1, then finish.
C9_Witness ==
    /\ Terminated
    /\ Len(data_store) = 3
    /\ \A i \in 1..3 : ticksRead[i].now_sec = 1
    /\ [i \in 1..3 |-> data_store[i].set_ApTx] = <<R(20), R(20), R(20)>>

\* C10 as stated: after finish the window in progress is closed and its
\* mean is the known mean (20 for 10, 20, 30).
C10_FinishClosesWindow ==
    (Terminated /\ data_store # <<>>) =>
        LET n == Len(ticksRead)
            a == RunStart(ticksRead, n)
        IN prev_mean_dl =
               Norm(sum(DlOf(ticksRead, a, n)), n - a + 1)

\* C10 amended: finish leaves the window in progress open: its samples stay
\* buffered, no mean is computed for it and the known mean is the one of the
\* window closed before it, absent if there is none (after 10, 20, 30 at
\* timestamp 1 and finish: buffer 10, 20, 30 and no mean).
C10_FinishLeavesWindowOpen ==
    (Terminated /\ data_store # <<>>) =>
        LET n == Len(ticksRead)
            a == RunStart(ticksRead, n)
        IN /\ current_dl_values = DlOf(ticksRead, a, n)
           /\ prev_now_sec = ticksRead[n].now_sec
           /\ Len(means) = Cardinality(Changes(ticksRead))
           /\ IF a = 1
                 THEN prev_mean_dl = None
                 ELSE LET b == RunStart(ticksRead, a - 1)
                      IN prev_mean_dl =
                             Norm(sum(DlOf(ticksRead, b, a - 1)), a - b)

\* C10 witness: 10, 20, 30 at timestamp 1, then finish.
C10_Witness ==
    /\ Terminated
    /\ Len(ticksRead) = 3
    /\ \A i \in 1..3 : ticksRead[i].now_sec = 1
    /\ current_dl_values = <<10, 20, 30>>
    /\ prev_mean_dl = None
    /\ means = <<>>

\* Position i carries a lower timestamp than the tick before it.
Regresses(seq, i) == i > 1 /\ seq[i].now_sec < seq[i - 1].now_sec

\* C11 as stated: a tick whose timestamp regresses leaves the known mean
\* unchanged, so it is recorded with the directive of the tick before it.
C11_RegressKeepsMean ==
    \A i \in DOMAIN data_store :
        Regresses(ticksRead, i) =>
            data_store[i].set_ApTx = data_store[i - 1].set_ApTx

\* C11 amended: a tick whose timestamp regresses does not interrupt the
\* loop and is handled like any change of timestamp: the window in progress
\* is closed, its mean becomes the known mean, and that tick and the
\* following ticks of its timestamp are recorded with the directive
\* computed from it.
C11_RegressClosesWindow ==
    /\ \A i \in DOMAIN data_store :
           LET a == RunStart(ticksRead, i)
           IN Regresses(ticksRead, a) =>
                 LET b == RunStart(ticksRead, a - 1)
                 IN data_store[i].set_ApTx =
                        ClampedPower(sum(DlOf(ticksRead, b, a - 1)), a - b)
    /\ Len(means) = Cardinality(Changes(Processed))
    /\ (pc = "PySendBegin" /\ Regresses(ticksRead, Len(ticksRead))) =>
           (pending = "none" /\ failedAt = "none")

\* C11 witness: 30 at timestamp 2, then 10 and 20 at timestamp 1; both
\* later ticks are recorded with 30 - 30 * 30 / 100 = 21 and the loop goes on.
C11_Witness ==
    /\ pc = "PySendBegin"
    /\ pending = "none"
    /\ Len(data_store) = 3
    /\ [i \in 1..3 |-> ticksRead[i].now_sec] = <<2, 1, 1>>
    /\ DlOf(ticksRead, 1, 3) = <<30, 10, 20>>
    /\ [i \in 1..3 |-> data_store[i].set_ApTx] = <<R(20), R(21), R(21)>>
    /\ prev_mean_dl = R(30)

\* C12: a run whose handshake calls stop inside a phase (a beginRead with
\* no endRead after it) does not complete silently: it ends with an error
\* and a non-zero exit status.
C12_DeviationRaises ==
    (pc = "exited" /\ Len(calls) % 4 # 0) => exit_code > 0

\* An interrupt was raised inside the loop.
Cancelled == pending = "KeyboardInterrupt"

\* C13: once an interrupt is raised inside the loop no handshake call is
\* issued, no lock changes and the directive slot is not written any more;
\* the script goes through finally, and when it has exited the records
\* accumulated so far are on disk.
C13_CancelStopsHandshake ==
    /\ [](Cancelled => pc \in {"finally", "exited"})
    /\ []((Cancelled /\ pc = "exited" /\ data_store # <<>>) =>
              (flushes = 1 /\ csv_file = to_csv(DataFrame(data_store))))
    /\ [][Cancelled =>
              /\ calls' = calls
              /\ lockRead' = lockRead
              /\ lockWrite' = lockWrite
              /\ py2cpp' = py2cpp
              /\ data_store' = data_store]_vars

\* C13 witness: interrupted inside the write phase of the second tick; the
\* script has exited with both records on disk.
C13_Witness ==
    /\ Cancelled
    /\ pc = "exited"
    /\ lockWrite
    /\ Last(calls) = "beginWrite"
    /\ Len(data_store) = 2
    /\ csv_file = to_csv(DataFrame(data_store))

\* The directive of the tick at position i, from the ticks read up to it.
ExpectedDirective(i) ==
    LET a == RunStart(ticksRead, i)
    IN IF a = 1
          THEN R(20)
          ELSE LET b == RunStart(ticksRead, a - 1)
               IN ClampedPower(sum(DlOf(ticksRead, b, a - 1)), a - b)

\* C14 as stated: outside the processing of a tick, every tick read so far
\* has its record.
C14_EveryTickReadRecorded ==
    pc \notin {"PyRecvEnd", "Process"} => Len(data_store) = Len(ticksRead)

\* C14 amended: data_store is append-only and holds, in arrival order, one
\* record per tick read, with that tick's fields and its directive, except
\* that the tick read last has no record while it is between its read and
\* line 192, and never gets one if PyRecvEnd raises or an interrupt arrives
\* in between.
C14_AppendOnlyOncePerTick ==
    /\ [](/\ Len(data_store) <= Len(ticksRead)
          /\ Len(ticksRead) <= Len(data_store) + 1)
    /\ [](\A i \in DOMAIN data_store :
              data_store[i] =
                  ticksRead[i] @@ ("set_ApTx" :> ExpectedDirective(i)))
    /\ [](Len(ticksRead) = Len(data_store) + 1 =>
              \/ pc \in {"PyRecvEnd", "Process"}
              \/ failedAt = "PyRecvEnd"
              \/ Cancelled)
    /\ [][/\ Len(data_store') >= Len(data_store)
          /\ SubSeq(data_store', 1, Len(data_store)) = data_store]_vars

\* C14 witness: two ticks recorded, a third read, then PyRecvEnd raised.
C14_Witness ==
    /\ failedAt = "PyRecvEnd"
    /\ Len(ticksRead) = 3
    /\ Len(data_store) = 2
    /\ \A i \in 1..2 : data_store[i].dl_tp = ticksRead[i].dl_tp
    /\ pc = "exited"

\* The finish flag is set and the check of lines 97-99 is behind.
FinishObserved == isFinished /\ pc # "PyGetFinished"

\* C15: after the finish check has seen the flag the script is in else,
\* finally or at its end (or in the handler if that check raised) and
\* stays there; no handshake call is issued, the directive slot is not
\* written and no record is appended; the last call was the beginRead that
\* returned the flag, and no tick or record belongs to it.
C15_FinishIsTerminal ==
    /\ [](FinishObserved =>
              /\ pc \in {"else", "finally", "exited", "except"}
              /\ ~lockWrite
              /\ Last(calls) = "beginRead"
              /\ Len(data_store) = Len(ticksRead)
              /\ NumReads = Len(data_store) + 1)
    /\ [][FinishObserved =>
              /\ FinishObserved'
              /\ calls' = calls
              /\ data_store' = data_store
              /\ py2cpp' = py2cpp]_vars

\* C15 witness: two ticks, then finish; the script has exited after three
\* reads with two records.
C15_Witness ==
    /\ Terminated
    /\ pc = "exited"
    /\ isFinished
    /\ NumReads = 3
    /\ Len(data_store) = 2
    /\ Len(calls) = 9

\* Number of write phases completed: endWrite calls that returned.
Delivered ==
    Cardinality({i \in DOMAIN calls : calls[i] = "endWrite"})
        - (IF failedAt = "PySendEnd" THEN 1 ELSE 0)

\* The steps of the script that do not depend on the simulator.
ScriptStep ==
    \/ PyGetFinished
    \/ GetCpp2PyStruct
    \/ PyRecvEnd
    \/ Process
    \/ PySendBegin
    \/ GetPy2CppStruct
    \/ PySendEnd
    \/ ElseClause
    \/ Finally

\* C16: with every PyRecvBegin answered and no call failing, the script can
\* only wait at PyRecvBegin; every tick read leads to its directive in the
\* channel slot with the write phase closed; and the finish flag leads to
\* the end of the script with status 0 and the records on disk.
C16_Progress ==
    /\ [](pc \notin {"PyRecvBegin", "exited"} => ENABLED ScriptStep)
    /\ (Len(ticksRead) > Delivered) ~>
           (/\ Len(ticksRead) = Delivered
            /\ ~lockWrite
            /\ data_store # <<>>
            /\ py2cpp = data_store[Len(data_store)].set_ApTx)
    /\ isFinished ~>
           (/\ pc = "exited"
            /\ exit_code = 0
            /\ data_store # <<>> => csv_file = to_csv(DataFrame(data_store)))

\* C16 witness: three ticks answered, then finish; the script has ended.
C16_Witness ==
    /\ pc = "exited"
    /\ isFinished
    /\ Delivered = 3
    /\ Len(ticksRead) = 3
    /\ exit_code = 0
    /\ Len(csv_file.rows) = 3

ReadPcs == {"PyGetFinished", "GetCpp2PyStruct", "PyRecvEnd"}
WritePcs == {"GetPy2CppStruct", "PySendEnd"}

\* C18: the finish flag and the tick structure are read only with the read
\* lock held and the write lock free, the directive slot is written only
\* with the write lock held and the read lock free, the locals change only
\* by the copy made inside the read phase, and a record is built after the
\* read phase from the copied values, not from the channel's structure.
C18_ChannelStateUnderLock ==
    /\ [](pc \in ReadPcs => lockRead /\ ~lockWrite)
    /\ [](pc \in WritePcs => lockWrite /\ ~lockRead)
    /\ [][py2cpp' # py2cpp =>
              pc = "GetPy2CppStruct" /\ lockWrite /\ lockWrite']_vars
    /\ [][(wifi' # wifi \/ ticksRead' # ticksRead) =>
              /\ pc = "GetCpp2PyStruct"
              /\ lockRead /\ lockRead'
              /\ wifi' = cpp2py]_vars
    /\ [][data_store' # data_store =>
              /\ ~lockRead /\ ~lockWrite
              /\ cpp2py # Last(ticksRead)
              /\ Last(data_store') =
                     Last(ticksRead) @@ ("set_ApTx" :> set_ApTx')]_vars

\* C18 witness: the second tick was copied, its read phase closed, its
\* record built from the copy, and its directive written under the write
\* lock.
C18_Witness ==
    /\ pc = "PySendEnd"
    /\ lockWrite /\ ~lockRead
    /\ cpp2py = NoTick
    /\ Len(data_store) = 2
    /\ wifi = ticksRead[2]
    /\ data_store[2].dl_tp = 30
    /\ ticksRead[1].dl_tp = 20
    /\ py2cpp = R(24)

\* A call of the send phase raised.
SendFailed == failedAt \in {"PySendBegin", "GetPy2CppStruct", "PySendEnd"}

\* C19: the record of a tick is appended before its write phase starts, so
\* the number of records exceeds the number of directives delivered by 0
\* or 1, and by 1 all through the send phase; when a call of the send phase
\* of tick k raises, the file holds the k records, the k-th with a
\* directive whose write phase never completed (if the raise came before
\* PySendEnd the slot still holds the directive of tick k-1, or nothing).
C19_RecordBeforeDelivery ==
    /\ Len(data_store) - Delivered \in {0, 1}
    /\ pc \in {"PySendBegin", "GetPy2CppStruct", "PySendEnd"} =>
           Len(data_store) = Delivered + 1
    /\ (pc = "exited" /\ SendFailed) =>
           /\ StorageHolds(NumReads)
           /\ Len(data_store) = NumReads
           /\ Delivered = NumReads - 1
           /\ lockWrite = (failedAt # "PySendBegin")
           /\ failedAt # "PySendEnd" =>
                  py2cpp = IF NumReads = 1
                              THEN None
                              ELSE data_store[NumReads - 1].set_ApTx

\* C19 witness: the directive write of the second tick raised; two rows
\* are on disk, one directive was delivered, and the slot still holds the
\* first tick's 20 while the second row carries 24.
C19_Witness ==
    /\ pc = "exited"
    /\ failedAt = "GetPy2CppStruct"
    /\ NumReads = 2
    /\ Delivered = 1
    /\ Len(csv_file.rows) = 2
    /\ csv_file.rows[2][9] = R(24)
    /\ py2cpp = R(20)

\* C20: as long as data_store is empty no export has run and toy_data.csv
\* is as it was before the run, up to and including the end of the script
\* on every exit path.
C20_NoRecordNoWrite ==
    data_store = <<>> => (flushes = 0 /\ csv_file = PriorFile)

\* C20 witness: the first PyRecvBegin raised; the handler and finally have
\* run and the script has exited with status 1.
C20_Witness ==
    /\ pc = "exited"
    /\ failedAt = "PyRecvBegin"
    /\ NumReads = 1
    /\ data_store = <<>>
    /\ exit_code = 1
    /\ csv_file = PriorFile

====
